---- MODULE Spec2Model ----
(***************************************************************************)
(* The lookup pipeline of the relay bot: the sqlite store (database.py),   *)
(* the rate limiter, the response cache and the dispatcher                 *)
(* (api_handler.py) and the chat handlers that call them (utils.py,        *)
(* main.py).                                                               *)
(*                                                                         *)
(* The store is seen twice: `disk` is what has been committed, `conn` is   *)
(* what the event-loop thread's pooled connection sees (disk plus the      *)
(* writes of its open transaction).  The python sqlite3 module opens a     *)
(* transaction implicitly before INSERT/UPDATE and only conn.commit()      *)
(* ends it; no function of database.py ever rolls back.                    *)
(*                                                                         *)
(* Time is the value datetime.now() / time.time() returns, in seconds.     *)
(* Every coroutine runs on the one event-loop thread, so the code between  *)
(* two awaits is one atomic step.                                          *)
(***************************************************************************)
EXTENDS Integers, Sequences, FiniteSets, TLC

\* ---- program constants ------------------------------------------------
Limit == 10
Window == 60
DefaultCredits == 100
CacheTTL == 300
Retries == 3
APIConfig_retry == 3
max_length == 4000

\* ---- bounds of the exploration ----------------------------------------
TickUnit == 60
MaxTime == 120
MaxCalls == 12
MaxChatCalls == 11
MaxAdminCalls == 11
MaxFaultCalls == 13
MaxStoreCalls == 3
CacheTickUnit == 150
CacheMaxTime == 450
MaxCacheCalls == 4
MaxRetryCalls == 2
MaxErrCalls == 1
MaxBlob == 3641
MaxCancelCalls == 3
MaxDecodeCalls == 3
MaxKeyCalls == 11
MaxGateCalls == 3
MaxThreads == 6
MaxPoolCalls == 13
MaxTermCalls == 2
MaxThreadCalls == 2

\* ---- identities, services, inputs -------------------------------------
OWNER_ID == "owner"
ADMIN_IDS == {"owner"}
Users == {"u1", "owner"}
APIS == {"num"}
Commands == {"num", "nosuch"}
Queries == {"12345"}
ReqIds == {"r1", "r2"}
UI == [developer |-> "@Nullprotocol_X", powered_by |-> "NULL PROTOCOL"]

\* the body an upstream service answers with (already decoded)
Payloads == {[name |-> "X"]}

\* ---- dictionaries -----------------------------------------------------
\* dict.setdefault(k, v): sets k only when it is absent
SetDefault(d, k, v) ==
    IF k \in DOMAIN d THEN d
    ELSE [x \in DOMAIN d \cup {k} |-> IF x = k THEN v ELSE d[x]]

\* d[k] = v
SetItem(d, k, v) == [x \in DOMAIN d \cup {k} |-> IF x = k THEN v ELSE d[x]]

\* ---- the store (database.py) ------------------------------------------
\* users, rate_limits and api_stats as partial functions from their key;
\* lookups as the multiset of its rows (row -> number of copies), the
\* AUTOINCREMENT id and the uuid left out
EmptyStore ==
    [users |-> <<>>, lookups |-> <<>>, rate_limits |-> <<>>, api_stats |-> <<>>]

\* add_user's referral code: the first 8 hex digits of the md5 of the
\* user id followed by the timestamp of the call
ReferralCode(user_id, t) == <<user_id, t>>

\* the users row add_user inserts at time t: `credits INTEGER DEFAULT 100`,
\* the zeroed counters, `is_banned INTEGER DEFAULT 0`, the referral code
NewUserRow(user_id, t) ==
    [credits |-> DefaultCredits, total_lookups |-> 0,
     successful_lookups |-> 0, failed_lookups |-> 0,
     is_banned |-> FALSE, referral_code |-> ReferralCode(user_id, t)]

\* the columns of api_stats that carry a PRIMARY KEY or UNIQUE constraint
ApiStatsUniqueColumns == {"id"}

\* SELECT count FROM rate_limits WHERE user_id=? AND command=? AND
\* window_start > ?  -- the set of fetched counts (empty: fetchone() is None)
SelectCount(S, u, c, window_start) ==
    IF <<u, c>> \in DOMAIN S.rate_limits
       /\ S.rate_limits[<<u, c>>].window_start > window_start
    THEN {S.rate_limits[<<u, c>>].count}
    ELSE {}

\* faulty variant: INSERT OR REPLACE, which overwrites the row's count
UpsertRateLimit_replace(S, u, c, window_start, t) ==
    LET k == <<u, c>>
        rl == S.rate_limits
    IN [S EXCEPT !.rate_limits =
            [x \in DOMAIN rl \cup {k} |->
                IF x = k THEN [count |-> 1, window_start |-> t] ELSE rl[x]]]

\* faulty variant: the conflict target is the user alone, so that every row
\* of the user is counted up
UpsertRateLimit_per_user(S, u, c, window_start, t) ==
    LET k == <<u, c>>
        rl == S.rate_limits
    IN [S EXCEPT !.rate_limits =
            [x \in DOMAIN rl \cup {k} |->
                IF x \in DOMAIN rl /\ x[1] = u
                THEN [count |-> rl[x].count + 1,
                      window_start |-> IF rl[x].window_start < window_start
                                       THEN t ELSE rl[x].window_start]
                ELSE IF x = k THEN [count |-> 1, window_start |-> t]
                ELSE rl[x]]]

\* INSERT INTO rate_limits ... ON CONFLICT(user_id, command) DO UPDATE SET
\* count = count + 1, window_start = CASE WHEN window_start < ? THEN ? ...
UpsertRateLimit(S, u, c, window_start, t) ==
    LET k == <<u, c>>
        rl == S.rate_limits
        row == IF k \in DOMAIN rl
               THEN [count |-> rl[k].count + 1,
                     window_start |-> IF rl[k].window_start < window_start
                                      THEN t ELSE rl[k].window_start]
               ELSE [count |-> 1, window_start |-> t]
    IN [S EXCEPT !.rate_limits =
            [x \in DOMAIN rl \cup {k} |-> IF x = k THEN row ELSE rl[x]]]

\* The points of a store call at which the sqlite layer may raise
CheckFaults == {"none", "connect", "select", "upsert", "commit"}

\* faulty variant: the limit tested with > instead of >=
check_rate_limit_gt(cn, dk, user_id, command, limit, window, t, fault) ==
    LET window_start == t - window
        result == SelectCount(cn, user_id, command, window_start)
        upserted == UpsertRateLimit(cn, user_id, command, window_start, t)
    IN  IF fault \in {"connect", "select"}
        THEN [ret |-> TRUE, conn |-> cn, disk |-> dk,
              raised |-> TRUE]
        ELSE IF \E n \in result : n > limit
        THEN [ret |-> FALSE, conn |-> cn, disk |-> dk,
              raised |-> FALSE]
        ELSE IF fault = "upsert"
        THEN [ret |-> TRUE, conn |-> cn, disk |-> dk,
              raised |-> TRUE]
        ELSE IF fault = "commit"
        THEN [ret |-> TRUE, conn |-> upserted, disk |-> dk,
              raised |-> TRUE]
        ELSE [ret |-> TRUE, conn |-> upserted, disk |-> upserted,
              raised |-> FALSE]

\* faulty variant: the call is counted before the limit is tested
check_rate_limit_counts_denied(cn, dk, user_id, command, limit, window, t, fault) ==
    LET window_start == t - window
        result == SelectCount(cn, user_id, command, window_start)
        upserted == UpsertRateLimit(cn, user_id, command, window_start, t)
    IN  IF fault \in {"connect", "select"}
        THEN [ret |-> TRUE, conn |-> cn, disk |-> dk,
              raised |-> TRUE]
        ELSE IF \E n \in result : n >= limit
        THEN [ret |-> FALSE, conn |-> upserted, disk |-> upserted,
              raised |-> FALSE]
        ELSE IF fault = "upsert"
        THEN [ret |-> TRUE, conn |-> cn, disk |-> dk,
              raised |-> TRUE]
        ELSE IF fault = "commit"
        THEN [ret |-> TRUE, conn |-> upserted, disk |-> dk,
              raised |-> TRUE]
        ELSE [ret |-> TRUE, conn |-> upserted, disk |-> upserted,
              raised |-> FALSE]

\* faulty variant: a store error denies the call (fail closed)
check_rate_limit_fail_closed(cn, dk, user_id, command, limit, window, t, fault) ==
    LET window_start == t - window
        result == SelectCount(cn, user_id, command, window_start)
        upserted == UpsertRateLimit(cn, user_id, command, window_start, t)
    IN  IF fault \in {"connect", "select"}
        THEN [ret |-> FALSE, conn |-> cn, disk |-> dk,
              raised |-> TRUE]
        ELSE IF \E n \in result : n >= limit
        THEN [ret |-> FALSE, conn |-> cn, disk |-> dk,
              raised |-> FALSE]
        ELSE IF fault = "upsert"
        THEN [ret |-> FALSE, conn |-> cn, disk |-> dk,
              raised |-> TRUE]
        ELSE IF fault = "commit"
        THEN [ret |-> FALSE, conn |-> upserted, disk |-> dk,
              raised |-> TRUE]
        ELSE [ret |-> TRUE, conn |-> upserted, disk |-> upserted,
              raised |-> FALSE]

\* DatabaseManager.check_rate_limit: the returned bool and the two views of
\* the store afterwards
check_rate_limit(cn, dk, user_id, command, limit, window, t, fault) ==
    LET window_start == t - window
        result == SelectCount(cn, user_id, command, window_start)
        upserted == UpsertRateLimit(cn, user_id, command, window_start, t)
    IN  IF fault \in {"connect", "select"}
        THEN [ret |-> TRUE, conn |-> cn, disk |-> dk,
              raised |-> TRUE]
        ELSE IF \E n \in result : n >= limit
        THEN [ret |-> FALSE, conn |-> cn, disk |-> dk,
              raised |-> FALSE]
        ELSE IF fault = "upsert"
        THEN [ret |-> TRUE, conn |-> cn, disk |-> dk,
              raised |-> TRUE]
        ELSE IF fault = "commit"
        THEN [ret |-> TRUE, conn |-> upserted, disk |-> dk,
              raised |-> TRUE]
        ELSE [ret |-> TRUE, conn |-> upserted, disk |-> upserted,
              raised |-> FALSE]

\* The points of record_lookup at which the sqlite layer may raise
RecordFaults == {"none", "connect", "insert", "update"}

\* the number of rows of D in the multiset b
RECURSIVE RowCount(_, _)
RowCount(b, D) ==
    IF D = {} THEN 0
    ELSE LET x == CHOOSE y \in D : TRUE IN b[x] + RowCount(b, D \ {x})

\* SELECT COUNT(*) FROM lookups WHERE user_id = ?
NumLookups(S, user_id) ==
    RowCount(S.lookups, {x \in DOMAIN S.lookups : x.user_id = user_id})

\* INSERT INTO lookups (...) VALUES (...): one more row
InsertLookup(S, user_id, command, query, status, error) ==
    LET row == [user_id |-> user_id, command |-> command, query |-> query,
                status |-> status, error_message |-> error]
        b == S.lookups
    IN [S EXCEPT !.lookups =
            [x \in DOMAIN b \cup {row} |->
                IF x = row THEN (IF row \in DOMAIN b THEN b[row] + 1 ELSE 1)
                ELSE b[x]]]

\* UPDATE users SET total_lookups = total_lookups + 1, ..., credits =
\* credits - 1 WHERE user_id = ?  -- touches the row only when it exists
UpdateUserStats(S, user_id, status) ==
    IF user_id \in DOMAIN S.users
    THEN [S EXCEPT !.users[user_id] =
            [@ EXCEPT
                !.credits = @ - 1,
                !.total_lookups = @ + 1,
                !.successful_lookups = @ + (IF status = "success" THEN 1 ELSE 0),
                !.failed_lookups = @ + (IF status # "success" THEN 1 ELSE 0)]]
    ELSE S

\* INSERT INTO api_stats ... ON CONFLICT(api_name) DO UPDATE ...: sqlite
\* refuses the statement unless api_name carries a uniqueness constraint
UpsertTargetValid == "api_name" \in ApiStatsUniqueColumns

UpsertApiStats(S, command, status) ==
    LET st == S.api_stats
        s == IF status = "success" THEN 1 ELSE 0
        f == IF status # "success" THEN 1 ELSE 0
        row == IF command \in DOMAIN st
               THEN [total_calls |-> st[command].total_calls + 1,
                     successful_calls |-> st[command].successful_calls + s,
                     failed_calls |-> st[command].failed_calls + f]
               ELSE [total_calls |-> 1, successful_calls |-> s, failed_calls |-> f]
    IN [S EXCEPT !.api_stats =
            [x \in DOMAIN st \cup {command} |-> IF x = command THEN row ELSE st[x]]]

\* faulty variant: record_lookup without its except clause, so that what
\* sqlite raises reaches the caller
record_lookup_uncaught(cn, dk, user_id, command, query, status, error, fault) ==
    LET s1 == InsertLookup(cn, user_id, command, query, status, error)
        s2 == UpdateUserStats(s1, user_id, status)
        s3 == UpsertApiStats(s2, command, status)
    IN  IF fault \in {"connect", "insert"}
        THEN [ret |-> "raise", conn |-> cn, disk |-> dk]
        ELSE IF fault = "update"
        THEN [ret |-> "raise", conn |-> s1, disk |-> dk]
        ELSE IF ~UpsertTargetValid
        THEN [ret |-> "raise", conn |-> s2, disk |-> dk]
        ELSE [ret |-> "uuid", conn |-> s3, disk |-> s3]

\* DatabaseManager.record_lookup: "uuid" or "None", and the two views of the
\* store afterwards.  An exception leaves the statements already executed
\* in the connection's open transaction (there is no rollback).
record_lookup(cn, dk, user_id, command, query, status, error, fault) ==
    LET s1 == InsertLookup(cn, user_id, command, query, status, error)
        s2 == UpdateUserStats(s1, user_id, status)
        s3 == UpsertApiStats(s2, command, status)
    IN  IF fault \in {"connect", "insert"}
        THEN [ret |-> "None", conn |-> cn, disk |-> dk]
        ELSE IF fault = "update"
        THEN [ret |-> "None", conn |-> s1, disk |-> dk]
        ELSE IF ~UpsertTargetValid
        THEN [ret |-> "None", conn |-> s2, disk |-> dk]
        ELSE [ret |-> "uuid", conn |-> s3, disk |-> s3]

\* DatabaseManager.add_user: INSERT OR IGNORE INTO users, then commit
AddUserFaults == {"none", "connect"}

\* faulty variant: INSERT OR REPLACE, which writes a fresh row over the
\* row of a user that exists
add_user_replace(cn, dk, user_id, t, fault) ==
    LET ins == [cn EXCEPT !.users =
                   [x \in DOMAIN cn.users \cup {user_id} |->
                       IF x = user_id THEN NewUserRow(user_id, t) ELSE cn.users[x]]]
    IN  IF fault = "connect"
        THEN [ret |-> FALSE, conn |-> cn, disk |-> dk]
        ELSE [ret |-> TRUE, conn |-> ins, disk |-> ins]

\* DatabaseManager.add_user called at time t: what it returns and the two
\* views of the store afterwards.  The INSERT is ignored when user_id has
\* a row (rowcount 0); the commit also stores what was pending.
add_user(cn, dk, user_id, t, fault) ==
    LET ins == IF user_id \in DOMAIN cn.users THEN cn
               ELSE [cn EXCEPT !.users =
                        [x \in DOMAIN cn.users \cup {user_id} |->
                            IF x = user_id THEN NewUserRow(user_id, t)
                            ELSE cn.users[x]]]
    IN  IF fault = "connect"
        THEN [ret |-> FALSE, conn |-> cn, disk |-> dk]
        ELSE [ret |-> user_id \notin DOMAIN cn.users, conn |-> ins, disk |-> ins]

\* ---- the dispatcher (api_handler.py) ----------------------------------
VARIABLES
    now,        \* the clock
    conn,       \* the store as the pooled connection sees it
    disk,       \* the committed store
    cache,      \* APIHandler.cache: cache key -> [data, expires]
    stats,      \* APIHandler.stats
    req,        \* the lookups in flight, one slot per caller
    httpCalls,  \* number of session.get calls issued so far
    admitLog,   \* per (user, command): the times check_rate_limit returned True
    last,       \* the lookup api_handler.process_lookup returned last
    connection_pool,  \* DatabaseManager.connection_pool, in insertion order
    threads     \* the dashboard's request threads: where each one is

vars == <<now, conn, disk, cache, stats, req, httpCalls, admitLog, last,
          connection_pool, threads>>

poolvars == <<connection_pool, threads>>

\* ---- the connection pool (database.py lines 13-47) --------------------
\* DatabaseManager.max_pool_size
max_pool_size == 5

\* the thread of the event loop: asyncio.run(main()) runs the handlers in
\* the thread that imported database.py and so created the first connection
MainThread == 0

\* the request threads the dashboard's server starts, one per request
DashThreads == 1 .. MaxThreads

\* the pool once DatabaseManager() is constructed: init_database has
\* called get_connection in the main thread
InitialPool == <<[thread |-> MainThread, open |-> TRUE]>>

InPool(pool, thread_id) == \E i \in DOMAIN pool : pool[i].thread = thread_id

\* the connection the pool holds for thread_id is one that was closed
ClosedInPool(pool, thread_id) ==
    \E i \in DOMAIN pool : pool[i].thread = thread_id /\ ~pool[i].open

\* DatabaseManager.get_connection run by thread_id without another thread
\* in between: the pool afterwards.  A thread that has an entry gets that
\* entry, open or not; otherwise the oldest entry of a full pool is closed
\* and dropped and a new connection is added.
get_connection(pool, thread_id) ==
    IF InPool(pool, thread_id) THEN pool
    ELSE Append(IF Len(pool) >= max_pool_size THEN Tail(pool) ELSE pool,
                [thread |-> thread_id, open |-> TRUE])

\* where a store call of the event loop raises: at conn.cursor() when the
\* pool hands out a closed connection, else where the caller injects it
ConnFault(fault) ==
    IF ClosedInPool(connection_pool, MainThread) THEN "connect" ELSE fault

\* APIHandler.generate_cache_key: md5 of "api_name:query"; no service name
\* holds a ':', so the digest input determines the pair
generate_cache_key(api_name, query) == <<api_name, ":", query>>

APIResponse(success, data, error, response_time, cached) ==
    [success |-> success, data |-> data, error |-> error,
     response_time |-> response_time, cached |-> cached]

\* What one HTTP attempt can end in, and the error text make_request keeps
\* json200: 200, application/json, a JSON body.  html200_json /
\* html200_text: 200, text/html, a body that is / is not JSON.
\* other200_json / other200: 200, any other content type, a body that is /
\* is not JSON.  json_bad: 200, application/json, a body that is not JSON.
HttpOutcomes ==
    {"json200", "html200_json", "html200_text", "other200_json", "other200",
     "http500", "timeout", "client_error", "json_bad", "exception"}

\* faulty variant: every answer counts as a success, whatever its status
IsSuccessOutcome_any(o) ==
    o \in {"json200", "html200_json", "html200_text", "other200_json", "other200",
           "http500"}

\* `response.status == 200` (line 105), for the answers that decode
IsSuccessOutcome(o) ==
    o \in {"json200", "html200_json", "html200_text", "other200_json", "other200"}

\* the text of a body that is the JSON document of payload
JsonText(payload) == [json_of |-> payload]

\* the value decoded from a 200 response (lines 105-119): response.json()
\* for application/json, json.loads with the raw text as fallback for
\* text/html, the raw text for every other content type
DecodedData(o, payload) ==
    IF o \in {"json200", "html200_json"} THEN payload
    ELSE IF o = "other200_json" THEN [raw_response |-> JsonText(payload)]
    ELSE [raw_response |-> "text"]

AttemptError(o) ==
    CASE o = "http500" -> "HTTP 500"
      [] o = "timeout" -> "Timeout after 10s"
      [] o = "client_error" -> "Client error"
      [] o = "json_bad" -> "JSON decode error"
      [] OTHER -> "Unexpected error"

\* faulty variant: the first error is kept
NextLastError_first(prev, o) == IF prev = "None" THEN AttemptError(o) ELSE prev

\* faulty variant: one attempt more
HasNextAttempt_extra(attempt) == attempt < Retries

\* faulty variant: every service name has a descriptor
IsConfigured_any(api_name) == TRUE

\* faulty variant: every lookup is recorded as a success
LookupStatus_success(api_response) == "success"

\* `last_error = ...` in the except clauses and the non-200 branch: the
\* error of the attempt that just ended replaces the one kept before
NextLastError(prev, o) == AttemptError(o)

\* `for attempt in range(retries)`: another attempt follows this one
HasNextAttempt(attempt) == attempt + 1 < Retries

\* faulty variant: the exponent is the index of the attempt about to start
Backoff_next(attempt) == 2 ^ (attempt + 1)

\* `asyncio.sleep(2 ** attempt)` (line 152): the delay asked for after the
\* attempt of index `attempt` has failed
Backoff(attempt) == 2 ^ attempt

\* the exceptions an `except Exception` clause takes: the subclasses of
\* Exception.  asyncio.CancelledError derives from BaseException.
ExceptionSubclasses ==
    {"TimeoutError", "ClientError", "JSONDecodeError", "RuntimeError"}

\* faulty variant: the clauses of the attempt take every exception
CaughtInAttempt_all(exc) == TRUE

\* the except clauses of the attempt (lines 141-148) take exc
CaughtInAttempt(exc) == exc \in ExceptionSubclasses

\* faulty variant: an entry still counts as fresh at its expiry instant
CacheFresh_le(entry, t) == t <= entry.expires

\* `datetime.now() < cached_data['expires']` (line 75)
CacheFresh(entry, t) == t < entry.expires

\* `config.APIS.get(api_name)` finds a descriptor (lines 87-88)
IsConfigured(api_name) == api_name \in APIS

\* the result make_request returns when no attempt succeeded (lines 158-162)
FailedResult(last_error, start_time, t) ==
    APIResponse(FALSE, <<>>, last_error, t - start_time, FALSE)

\* the status and error arguments process_lookup gives record_lookup
\* (lines 276-277)
LookupStatus(api_response) == IF api_response.success THEN "success" ELSE "error"

LookupError(api_response) ==
    IF api_response.success THEN "None" ELSE api_response.error

\* faulty variant: the formatting hints depend on the time of the call
format_response_drift(api_response, command, query, t) ==
    IF ~api_response.success
    THEN [error |-> TRUE, message |-> api_response.error, command |-> command,
          query |-> query, timestamp |-> t,
          developer |-> UI.developer, powered_by |-> UI.powered_by]
    ELSE LET d1 == SetDefault(api_response.data, "success", TRUE)
             d2 == SetDefault(d1, "query", query)
             d3 == SetDefault(d2, "command", command)
             d4 == SetDefault(d3, "timestamp", t)
             d5 == SetDefault(d4, "response_time_ms", api_response.response_time * 1000)
             d6 == SetDefault(d5, "cached", api_response.cached)
             d7 == SetDefault(d6, "developer", UI.developer)
             d8 == SetDefault(d7, "powered_by", UI.powered_by)
         IN SetItem(d8, "_format",
                [type |-> "json", pretty |-> TRUE, max_length |-> 4000 + t,
                 truncate_long |-> TRUE])

\* APIHandler.format_response
format_response(api_response, command, query, t) ==
    IF ~api_response.success
    THEN [error |-> TRUE, message |-> api_response.error, command |-> command,
          query |-> query, timestamp |-> t,
          developer |-> UI.developer, powered_by |-> UI.powered_by]
    ELSE LET d1 == SetDefault(api_response.data, "success", TRUE)
             d2 == SetDefault(d1, "query", query)
             d3 == SetDefault(d2, "command", command)
             d4 == SetDefault(d3, "timestamp", t)
             d5 == SetDefault(d4, "response_time_ms", api_response.response_time * 1000)
             d6 == SetDefault(d5, "cached", api_response.cached)
             d7 == SetDefault(d6, "developer", UI.developer)
             d8 == SetDefault(d7, "powered_by", UI.powered_by)
         IN SetItem(d8, "_format",
                [type |-> "json", pretty |-> TRUE, max_length |-> 4000,
                 truncate_long |-> TRUE])

\* the dict process_lookup returns on a rate-limit denial (lines 255-260)
RateLimitExceeded ==
    [error |-> TRUE, message |-> "Rate limit exceeded",
     developer |-> UI.developer, powered_by |-> UI.powered_by]

\* ---- lookups in flight ------------------------------------------------
IdleReq ==
    [pc |-> "idle", via |-> "-", user_id |-> "-", command |-> "-", query |-> "-",
     attempt |-> 0, last_error |-> "None", start_time |-> 0,
     admitted |-> FALSE, winAdmits |-> 0, fresh |-> FALSE, fault |-> "none",
     count0 |-> 0, outcome |-> "-", recorded |-> "-", result |-> <<>>,
     attempts |-> 0, errors |-> <<>>, end_time |-> 0,
     api_response |-> APIResponse(FALSE, <<>>, "None", 0, FALSE),
     sleeps |-> <<>>, answer |-> "-", cancelled |-> FALSE, membership |-> <<>>]

KeyOf(r) == <<req[r].user_id, req[r].command>>

\* the stored count of a key, 0 when it has no row
CountOf(S, k) == IF k \in DOMAIN S.rate_limits THEN S.rate_limits[k].count ELSE 0

\* a key's row is inside its window at time t (the SELECT's own test)
ActiveAt(S, k, t) ==
    k \in DOMAIN S.rate_limits /\ S.rate_limits[k].window_start > t - Window

\* the admissions logged for k that fall in the stored window
\* [window_start, window_start + Window)
InWindowAdmits(S, k, log) ==
    IF k \in DOMAIN S.rate_limits
    THEN Cardinality({i \in DOMAIN log[k] :
            /\ log[k][i] >= S.rate_limits[k].window_start
            /\ log[k][i] < S.rate_limits[k].window_start + Window})
    ELSE 0

\* the slot once api_handler.process_lookup has returned: a direct caller
\* is done, the chat handler goes on to send the reply
AfterLookup(rq) == IF rq.via = "chat" THEN [rq EXCEPT !.pc = "reply"] ELSE IdleReq

\* all admissions logged so far
RECURSIVE LogLength(_, _)
LogLength(log, K) ==
    IF K = {} THEN 0
    ELSE LET k == CHOOSE x \in K : TRUE IN Len(log[k]) + LogLength(log, K \ {k})

Admissions == LogLength(admitLog, DOMAIN admitLog)

\* process_lookup lines 267-281, run without suspension once make_request
\* has returned api_response: format, record, return.  cn/dk/ch are the
\* store views and the cache as make_request left them.  The dict given to
\* format_response is the very object the cache entry holds.
Finish(r, rq, api_response, cn, dk, ch, rf) ==
    LET formatted == format_response(api_response, rq.command, rq.query, now)
        ck == generate_cache_key(rq.command, rq.query)
        ch2 == IF api_response.success /\ ck \in DOMAIN ch
               THEN [ch EXCEPT ![ck].data = formatted] ELSE ch
        rec == record_lookup(cn, dk, rq.user_id, rq.command, rq.query,
                   LookupStatus(api_response), LookupError(api_response),
                   ConnFault(rf))
    IN  /\ cache' = ch2
        /\ connection_pool' = get_connection(connection_pool, MainThread)
        /\ conn' = rec.conn
        /\ disk' = rec.disk
        /\ last' = IF rec.ret = "raise"
                   THEN [rq EXCEPT !.pc = "raised", !.recorded = rec.ret,
                                   !.api_response = api_response, !.end_time = now]
                   ELSE [rq EXCEPT !.pc = "returned", !.result = formatted,
                                   !.recorded = rec.ret,
                                   !.api_response = api_response, !.end_time = now]
        /\ req' = [req EXCEPT ![r] = AfterLookup(last')]

\* api_handler.process_lookup from its call to the first await of
\* make_request (or to its return): the rate-limit check, the cache look-up
\* and the service look-up.  cf / rf: where the store raises, if at all.
ProcessLookupEnter(r, rq0, cf, rf) ==
    LET k == <<rq0.user_id, rq0.command>>
        chk == check_rate_limit(conn, disk, rq0.user_id, rq0.command,
                                Limit, Window, now, ConnFault(cf))
        rq == [rq0 EXCEPT !.admitted = chk.ret,
                          !.winAdmits = IF ActiveAt(conn, k, now)
                                        THEN InWindowAdmits(conn, k, admitLog)
                                        ELSE 0,
                          !.fresh = ~ActiveAt(conn, k, now),
                          !.fault = IF chk.raised THEN ConnFault(cf) ELSE "none",
                          !.start_time = now]
        ck == generate_cache_key(rq.command, rq.query)
        hit == ck \in DOMAIN cache /\ CacheFresh(cache[ck], now)
        ch1 == IF ck \in DOMAIN cache /\ ~hit
               THEN [x \in DOMAIN cache \ {ck} |-> cache[x]] ELSE cache
    IN  IF ~chk.ret
        THEN /\ conn' = chk.conn
             /\ disk' = chk.disk
             /\ last' = [rq EXCEPT !.pc = "returned", !.result = RateLimitExceeded,
                                   !.end_time = now]
             /\ req' = [req EXCEPT ![r] = AfterLookup(last')]
             /\ connection_pool' = get_connection(connection_pool, MainThread)
             /\ UNCHANGED <<cache, stats, httpCalls, admitLog>>
        ELSE /\ admitLog' = [admitLog EXCEPT ![k] = Append(@, now)]
             /\ IF hit
                THEN /\ Finish(r, rq, APIResponse(TRUE, cache[ck].data, "None", 0, TRUE),
                               chk.conn, chk.disk, cache, rf)
                     /\ UNCHANGED <<stats, httpCalls>>
                ELSE IF ~IsConfigured(rq.command)
                THEN /\ Finish(r, rq,
                               APIResponse(FALSE, <<>>, "API not configured", 0, FALSE),
                               chk.conn, chk.disk, ch1, rf)
                     /\ UNCHANGED <<stats, httpCalls>>
                ELSE /\ conn' = chk.conn
                     /\ disk' = chk.disk
                     /\ cache' = ch1
                     /\ req' = [req EXCEPT ![r] = [rq EXCEPT !.pc = "http", !.attempt = 0,
                                                             !.attempts = 1]]
                     /\ httpCalls' = httpCalls + 1
                     /\ connection_pool' = get_connection(connection_pool, MainThread)
                     /\ UNCHANGED <<stats, last>>

\* the caller (the transport layer) calls api_handler.process_lookup
ApiCall(r, u, c, q, cf, rf, maxCalls) ==
    /\ req[r].pc = "idle"
    /\ Admissions < maxCalls
    /\ ProcessLookupEnter(r, [IdleReq EXCEPT !.via = "api", !.user_id = u,
                                             !.command = c, !.query = q], cf, rf)
    /\ UNCHANGED <<now, threads>>

\* the HTTP attempt of the dispatch rq0 in slot r ends in outcome o
\* (make_request lines 102-152, then 154-162 and process_lookup 265-281
\* when it was the last attempt)
AttemptEnds(r, rq0, o, payload, rf) ==
    /\ LET rq == [rq0 EXCEPT !.answer = o]
           ck == generate_cache_key(rq.command, rq.query)
           response_time == now - rq.start_time
           data == DecodedData(o, payload)
           ch1 == [x \in DOMAIN cache \cup {ck} |->
                     IF x = ck THEN [data |-> data, expires |-> now + CacheTTL]
                     ELSE cache[x]]
       IN  IF IsSuccessOutcome(o)
           THEN /\ stats' = [stats EXCEPT !.total_requests = @ + 1,
                                          !.successful_requests = @ + 1,
                                          !.total_response_time = @ + response_time]
                /\ Finish(r, rq, APIResponse(TRUE, data, "None", response_time, FALSE),
                          conn, disk, ch1, rf)
           ELSE IF HasNextAttempt(rq.attempt)
           THEN /\ req' = [req EXCEPT ![r] =
                       [rq EXCEPT !.pc = "sleep",
                                  !.last_error = NextLastError(rq.last_error, o),
                                  !.errors = Append(@, AttemptError(o)),
                                  !.sleeps = Append(@, Backoff(rq.attempt))]]
                /\ UNCHANGED <<conn, disk, cache, stats, last, connection_pool>>
           ELSE /\ stats' = [stats EXCEPT !.total_requests = @ + 1,
                                          !.failed_requests = @ + 1]
                /\ Finish(r, [rq EXCEPT !.last_error = NextLastError(rq.last_error, o),
                                        !.errors = Append(@, AttemptError(o))],
                          FailedResult(NextLastError(rq.last_error, o), rq.start_time, now),
                          conn, disk, cache, rf)
    /\ UNCHANGED <<now, httpCalls, admitLog, threads>>

HttpResponse(r, o, payload, rf) ==
    /\ req[r].pc = "http"
    /\ AttemptEnds(r, req[r], o, payload, rf)

\* the task awaiting the lookup is cancelled while the dispatcher is
\* suspended: CancelledError is raised at the await.  Inside the attempt
\* (lines 100-139) the except clauses decide; at the sleep (line 152) and
\* in process_lookup nothing catches it and the coroutine unwinds.
Cancel(r) ==
    /\ req[r].pc \in {"http", "sleep"}
    /\ ~req[r].cancelled
    /\ IF req[r].pc = "http" /\ CaughtInAttempt("CancelledError")
       THEN \E p \in Payloads :
               AttemptEnds(r, [req[r] EXCEPT !.cancelled = TRUE], "exception", p, "none")
       ELSE /\ last' = [req[r] EXCEPT !.pc = "cancelled", !.cancelled = TRUE,
                                      !.outcome = req[r].pc, !.end_time = now]
            /\ req' = [req EXCEPT ![r] = IdleReq]
            /\ UNCHANGED <<now, conn, disk, cache, stats, httpCalls, admitLog>>
            /\ UNCHANGED poolvars

\* asyncio.sleep(2 ** attempt) returns and the loop starts the next attempt
Wake(r) ==
    /\ req[r].pc = "sleep"
    /\ req' = [req EXCEPT ![r].pc = "http", ![r].attempt = @ + 1,
                          ![r].attempts = @ + 1]
    /\ httpCalls' = httpCalls + 1
    /\ UNCHANGED <<now, conn, disk, cache, stats, admitLog, last>>
    /\ UNCHANGED poolvars

\* the clock advances
Tick ==
    /\ now + TickUnit <= MaxTime
    /\ now' = now + TickUnit
    /\ UNCHANGED <<conn, disk, cache, stats, req, httpCalls, admitLog, last>>
    /\ UNCHANGED poolvars

\* ---- the chat handlers (utils.py, main.py) ----------------------------
\* ' '.join(context.args) for the argument lists used here
JoinArgs(args) == IF Len(args) = 1 THEN args[1] ELSE "-"

\* the wrapper of rate_limit_decorator, given the user of the update:
\* whether the wrapped handler runs, and the store afterwards
rate_limit_decorator(cn, dk, user_id, command, t, fault) ==
    IF user_id \in ADMIN_IDS \/ user_id = OWNER_ID
    THEN [proceed |-> TRUE, checked |-> FALSE, conn |-> cn, disk |-> dk]
    ELSE LET chk == check_rate_limit(cn, dk, user_id, command, Limit, Window, t, fault)
         IN [proceed |-> chk.ret, checked |-> TRUE, conn |-> chk.conn, disk |-> chk.disk]

\* a lookup command arrives: the decorated handler (num_lookup, ...) up to
\* the first await of TelegramBotPro.process_lookup, or to its early return
ChatCommand(r, u, c, chat_type, args, cf, maxCalls) ==
    /\ req[r].pc = "idle"
    /\ Admissions < maxCalls
    /\ LET k == <<u, c>>
           rq == [IdleReq EXCEPT !.via = "chat", !.user_id = u, !.command = c,
                                 !.query = JoinArgs(args),
                                 !.count0 = CountOf(conn, k)]
           dec == rate_limit_decorator(conn, disk, u, c, now, ConnFault(cf))
       IN  /\ conn' = dec.conn
           /\ connection_pool' = IF dec.checked
                                 THEN get_connection(connection_pool, MainThread)
                                 ELSE connection_pool
           /\ disk' = dec.disk
           /\ admitLog' = IF dec.checked /\ dec.proceed
                          THEN [admitLog EXCEPT ![k] = Append(@, now)]
                          ELSE admitLog
           /\ req' = [req EXCEPT ![r] =
                  IF ~dec.proceed
                  THEN [rq EXCEPT !.pc = "replied", !.outcome = "rate_limit_decorator"]
                  ELSE IF chat_type \notin {"group", "supergroup"}
                  THEN [rq EXCEPT !.pc = "replied", !.outcome = "not_group"]
                  ELSE IF args = <<>>
                  THEN [rq EXCEPT !.pc = "replied", !.outcome = "usage"]
                  ELSE [rq EXCEPT !.pc = "member"]]
    /\ UNCHANGED <<now, cache, stats, httpCalls, last, threads>>

\* check_channel_membership has answered (main.py lines 394-413)
MembershipResult(r, has_joined) ==
    /\ req[r].pc = "member"
    /\ req' = [req EXCEPT ![r] =
           IF has_joined THEN [@ EXCEPT !.pc = "notify"]
           ELSE [@ EXCEPT !.pc = "replied", !.outcome = "not_joined"]]
    /\ UNCHANGED <<now, conn, disk, cache, stats, httpCalls, admitLog, last>>
    /\ UNCHANGED poolvars

\* what get_chat_member can report for one required channel: the member's
\* status, or an exception
MemberStatuses == {"member", "left", "kicked", "error"}

\* faulty variant: the membership check lets everybody pass
check_channel_membership_open(statuses) == TRUE

\* utils.check_channel_membership, given what each channel of
\* FORCE_JOIN_CHANNELS reports: False at the first channel that reports
\* left or kicked; a channel whose query raises is skipped
check_channel_membership(statuses) ==
    ~\E i \in DOMAIN statuses : statuses[i] \in {"left", "kicked"}

\* check_channel_membership has answered from the channels' reports
MembershipChecked(r, statuses) ==
    /\ req[r].pc = "member"
    /\ req' = [req EXCEPT ![r] =
           IF check_channel_membership(statuses)
           THEN [@ EXCEPT !.pc = "notify", !.membership = statuses]
           ELSE [@ EXCEPT !.pc = "replied", !.outcome = "not_joined",
                          !.membership = statuses]]
    /\ UNCHANGED <<now, conn, disk, cache, stats, httpCalls, admitLog, last>>
    /\ UNCHANGED poolvars

\* the "Processing..." message is out: api_handler.process_lookup is called
Notified(r, cf, rf) ==
    /\ req[r].pc = "notify"
    /\ ProcessLookupEnter(r, req[r], cf, rf)
    /\ UNCHANGED <<now, threads>>

\* the result is formatted and sent to the chat (main.py lines 418-455)
ChatReply(r) ==
    /\ req[r].pc = "reply"
    /\ req' = [req EXCEPT ![r].pc = "replied", ![r].outcome = "sent"]
    /\ UNCHANGED <<now, conn, disk, cache, stats, httpCalls, admitLog, last>>
    /\ UNCHANGED poolvars

\* the handler has returned: the next update is taken
ChatReturn(r) ==
    /\ req[r].pc = "replied"
    /\ req' = [req EXCEPT ![r] = IdleReq]
    /\ UNCHANGED <<now, conn, disk, cache, stats, httpCalls, admitLog, last>>
    /\ UNCHANGED poolvars

\* /start: start_command calls db.add_user for the sender (main.py 190-196)
StartCommand(u, fault) ==
    /\ LET added == add_user(conn, disk, u, now, ConnFault(fault))
       IN  /\ conn' = added.conn
           /\ disk' = added.disk
    /\ connection_pool' = get_connection(connection_pool, MainThread)
    /\ UNCHANGED <<now, cache, stats, req, httpCalls, admitLog, last, threads>>

\* ---- the lookup pipeline called directly, store working ---------------
Init ==
    /\ now = 0
    /\ conn = EmptyStore
    /\ disk = EmptyStore
    /\ cache = <<>>
    /\ stats = [total_requests |-> 0, successful_requests |-> 0,
                failed_requests |-> 0, total_response_time |-> 0]
    /\ req = [r \in ReqIds |-> IdleReq]
    /\ httpCalls = 0
    /\ admitLog = [k \in Users \X Commands |-> <<>>]
    /\ last = [IdleReq EXCEPT !.pc = "none"]
    /\ connection_pool = InitialPool
    /\ threads = [t \in DashThreads |-> "none"]

Next ==
    \/ \E r \in ReqIds, q \in Queries : ApiCall(r, "u1", "num", q, "none", "none", MaxCalls)
    \/ \E r \in ReqIds, o \in {"json200"}, p \in Payloads :
          HttpResponse(r, o, p, "none")
    \/ Tick

Spec == Init /\ [][Next]_vars

\* ---- rate limiter: claims checked under Spec --------------------------
Keys == Users \X Commands

\* C1: for every user and command, at most Limit of the calls that fall in
\* one stored window [window_start, window_start + Window) are admitted,
\* and a call made when Limit calls of the active window have been admitted
\* is denied with the rate-limit-exceeded result.
C1_AtMostLimitPerWindow ==
    /\ \A k \in Keys : InWindowAdmits(conn, k, admitLog) <= Limit
    /\ (last.pc = "returned" /\ last.winAdmits >= Limit)
          => (~last.admitted /\ last.result = RateLimitExceeded)

\* the eleventh call of a window has come back denied after ten admissions
C1_Witness ==
    /\ last.pc = "returned"
    /\ ~last.admitted
    /\ last.winAdmits = Limit
    /\ last.result = RateLimitExceeded

\* a step in which process_lookup returned a denial
DeniedStep ==
    /\ last' # last
    /\ last'.pc = "returned"
    /\ ~last'.admitted

\* C2: a process_lookup call denied by the rate limiter changes nothing:
\* no lookup row, no change of the user's credits and counters, no change
\* of the rate-limit row (in the connection's view and on disk), no HTTP
\* request, no change of the cache.
C2_DeniedChangesNothing ==
    [][DeniedStep => UNCHANGED <<conn, disk, cache, stats, httpCalls>>]_vars

\* a denial has been returned to a user who has rows in the store
C2_Witness ==
    /\ last.pc = "returned"
    /\ ~last.admitted
    /\ NumLookups(conn, last.user_id) >= 1
    /\ CountOf(conn, <<last.user_id, last.command>>) >= Limit

\* C3 (as claimed): a check on a key that has no row, or whose window has
\* expired, admits the call and leaves the row with count = 1 and
\* window_start = now.
C3_FreshWindowStartsAtOne ==
    [][\A k \in Keys :
          (admitLog'[k] # admitLog[k] /\ ~ActiveAt(conn, k, now))
             => /\ k \in DOMAIN conn'.rate_limits
                /\ conn'.rate_limits[k] = [count |-> 1, window_start |-> now]]_vars

\* a call admitted on an expired window has left its row with a count of
\* two or more
C3_Witness ==
    /\ last.pc = "returned"
    /\ last.admitted
    /\ last.fresh
    /\ CountOf(conn, <<last.user_id, last.command>>) >= 2

\* C6: lookups in flight at the same time never lose or double an
\* increment: the stored count of a key is the number of calls admitted
\* for it, and the calls admitted in one window stay within Limit.
C6_NoLostUpdate ==
    /\ \A k \in Keys : CountOf(conn, k) = Len(admitLog[k])
    /\ \A k \in Keys : ActiveAt(conn, k, now) =>
                          InWindowAdmits(conn, k, admitLog) <= Limit

\* two lookups of one key are in flight together, both admitted and counted
C6_Witness ==
    \E r1, r2 \in ReqIds :
        /\ r1 # r2
        /\ req[r1].pc = "http" /\ req[r2].pc = "http"
        /\ KeyOf(r1) = KeyOf(r2)
        /\ CountOf(conn, KeyOf(r1)) = 2

\* ---- lookups arriving as chat commands --------------------------------
\* python-telegram-bot handles one update at a time: one slot
NextChat ==
    \/ \E chat_type \in {"group", "private"}, args \in {<<>>, <<"12345">>} :
          ChatCommand("r1", "u1", "num", chat_type, args, "none", MaxChatCalls)
    \/ \E j \in BOOLEAN : MembershipResult("r1", j)
    \/ Notified("r1", "none", "none")
    \/ \E p \in Payloads : HttpResponse("r1", "json200", p, "none")
    \/ ChatReply("r1")
    \/ ChatReturn("r1")
    \/ Tick

SpecChat == Init /\ [][NextChat]_vars

\* the same handlers driven by the owner's commands
NextAdmin ==
    \/ \E chat_type \in {"group", "private"}, args \in {<<>>, <<"12345">>} :
          ChatCommand("r1", OWNER_ID, "num", chat_type, args, "none", MaxAdminCalls)
    \/ \E j \in BOOLEAN : MembershipResult("r1", j)
    \/ Notified("r1", "none", "none")
    \/ \E p \in Payloads : HttpResponse("r1", "json200", p, "none")
    \/ ChatReply("r1")
    \/ ChatReturn("r1")
    \/ Tick

SpecAdmin == Init /\ [][NextAdmin]_vars

IsAdmin(u) == u \in ADMIN_IDS \/ u = OWNER_ID

\* C4 (as claimed): a lookup command handled end to end raises the window
\* count of its key by exactly 1, and a user who is not an admin and starts
\* from a fresh window has had exactly Limit lookups dispatched when the
\* first denial comes.
C4_OneIncrementPerCommand ==
    \A r \in ReqIds :
        /\ (req[r].via = "chat" /\ req[r].pc = "reply" /\ req[r].admitted)
              => CountOf(conn, KeyOf(r)) = req[r].count0 + 1
        /\ (/\ req[r].via = "chat"
            /\ ~IsAdmin(req[r].user_id)
            /\ now = 0
            /\ \/ req[r].outcome = "rate_limit_decorator"
               \/ (req[r].pc = "reply" /\ ~req[r].admitted))
              => NumLookups(conn, req[r].user_id) = Limit

\* the decorator denies a command at time 0 when only five lookups of the
\* user have been dispatched and recorded
C4_Witness ==
    \E r \in ReqIds :
        /\ req[r].outcome = "rate_limit_decorator"
        /\ now = 0
        /\ NumLookups(conn, req[r].user_id) = 5
        /\ CountOf(conn, KeyOf(r)) = Limit

\* C5 (as claimed): a lookup of an admin or of the owner is never denied by
\* the rate limiter and never reads or updates a rate-limit window.
C5_AdminBypass ==
    /\ \A k \in Keys : IsAdmin(k[1]) => k \notin DOMAIN conn.rate_limits
    /\ (last.pc = "returned" /\ IsAdmin(last.user_id)) => last.admitted

\* the owner's lookup has come back with the rate-limit denial
C5_Witness ==
    /\ last.pc = "returned"
    /\ last.user_id = OWNER_ID
    /\ ~last.admitted
    /\ last.result = RateLimitExceeded

\* ---- the rate-limit store raising -------------------------------------
\* the committed store when the process is restarted right after the tenth
\* lookup of u1 (who never sent /start) in the window opened at 0: the
\* tenth admission committed the count and the nine records before it
WindowFullStore ==
    [users |-> <<>>,
     lookups |-> [x \in {[user_id |-> "u1", command |-> "num", query |-> "12345",
                          status |-> "success", error_message |-> "None"]} |->
                     Limit - 1],
     rate_limits |-> [k \in {<<"u1", "num">>} |->
                         [count |-> Limit, window_start |-> 0]],
     api_stats |-> <<>>]

InitFault ==
    /\ now = 0
    /\ disk = WindowFullStore
    /\ conn = disk
    /\ cache = <<>>
    /\ stats = [total_requests |-> 0, successful_requests |-> 0,
                failed_requests |-> 0, total_response_time |-> 0]
    /\ req = [r \in ReqIds |-> IdleReq]
    /\ httpCalls = 0
    /\ admitLog = [k \in Users \X Commands |->
                      IF k = <<"u1", "num">> THEN [i \in 1..Limit |-> 0] ELSE <<>>]
    /\ last = [IdleReq EXCEPT !.pc = "none"]
    /\ connection_pool = InitialPool
    /\ threads = [t \in DashThreads |-> "none"]

NextFault ==
    \/ \E cf \in CheckFaults :
          ApiCall("r1", "u1", "num", "12345", cf, "none", MaxFaultCalls)
    \/ \E p \in Payloads : HttpResponse("r1", "json200", p, "none")
    \/ Tick

SpecFault == InitFault /\ [][NextFault]_vars

\* the HTTP attempt or the cached answer of a call: it went on to dispatch
Dispatched(rq) ==
    \/ rq.pc \in {"http", "sleep"}
    \/ (rq.pc = "returned" /\ rq.result # RateLimitExceeded)

\* C7: a check_rate_limit call in which the store raised (on connecting,
\* on the SELECT, on the upsert or on the commit) returned True, and the
\* lookup went on to dispatch: it is never answered with a denial.
C7_FailOpen ==
    /\ \A r \in ReqIds :
          (req[r].pc # "idle" /\ req[r].fault # "none")
             => (req[r].admitted /\ Dispatched(req[r]))
    /\ (last.pc = "returned" /\ last.fault # "none")
          => (last.admitted /\ Dispatched(last))

\* the store raised on the SELECT of a call made when the window already
\* held Limit admissions, and that call is at its HTTP attempt
C7_Witness ==
    \E r \in ReqIds :
        /\ req[r].pc = "http"
        /\ req[r].fault = "select"
        /\ req[r].admitted
        /\ req[r].winAdmits >= Limit
        /\ CountOf(conn, KeyOf(r)) >= Limit

\* ---- lookups and /start against a store that has a history ------------
\* the committed store after n lookups of u1, the last admission of which
\* is older than one window: the n rows and their debits were committed by
\* the commit of the admission that followed them
PersistedStore(n) ==
    [users |-> [u \in {"u1"} |->
                   [credits |-> DefaultCredits - n, total_lookups |-> n,
                    successful_lookups |-> n, failed_lookups |-> 0,
                    is_banned |-> FALSE,
                    referral_code |-> ReferralCode(u, 0 - (Window + 1))]],
     lookups |-> [x \in {[user_id |-> "u1", command |-> "num", query |-> "12345",
                          status |-> "success", error_message |-> "None"]} |-> n],
     rate_limits |-> [k \in {<<"u1", "num">>} |->
                         [count |-> n + 1, window_start |-> 0 - (Window + 1)]],
     api_stats |-> <<>>]

InitStore ==
    /\ now = 0
    /\ disk \in {EmptyStore, PersistedStore(DefaultCredits)}
    /\ conn = disk
    /\ cache = <<>>
    /\ stats = [total_requests |-> 0, successful_requests |-> 0,
                failed_requests |-> 0, total_response_time |-> 0]
    /\ req = [r \in ReqIds |-> IdleReq]
    /\ httpCalls = 0
    /\ admitLog = [k \in Users \X Commands |-> <<>>]
    /\ last = [IdleReq EXCEPT !.pc = "none"]
    /\ connection_pool = InitialPool
    /\ threads = [t \in DashThreads |-> "none"]

NextStore ==
    \/ \E c \in Commands : ApiCall("r1", "u1", c, "12345", "none", "none", MaxStoreCalls)
    \/ \E o \in {"json200", "timeout"}, p \in Payloads :
          HttpResponse("r1", o, p, "none")
    \/ Wake("r1")
    \/ StartCommand("u1", "none")
    \/ Tick

SpecStore == InitStore /\ [][NextStore]_vars

\* C8 (as claimed): when an admitted process_lookup call returns, exactly
\* one more lookup record of its user is committed to the lookups table.
C8_OneDurableRecordPerAdmission ==
    [][(last' # last /\ last'.pc = "returned" /\ last'.admitted)
          => NumLookups(disk', last'.user_id)
                = NumLookups(disk, last'.user_id) + 1]_vars

\* C9 (as claimed): for every user the credit balance is the initial
\* balance minus the number of lookup records the user owns.
C9_CreditsMatchRecords ==
    \A u \in DOMAIN disk.users :
        disk.users[u].credits = DefaultCredits - NumLookups(disk, u)

\* C10 (as claimed): no user's credit balance is below the floor of zero.
C10_CreditsNeverBelowFloor ==
    \A u \in DOMAIN disk.users : disk.users[u].credits >= 0

\* an admitted lookup has returned and none of its user's records is on disk
C8_Witness ==
    /\ last.pc = "returned"
    /\ last.admitted
    /\ last.recorded = "None"
    /\ NumLookups(conn, last.user_id) = 1
    /\ NumLookups(disk, last.user_id) = 0

\* a user who looked up before /start holds a record and the full balance
C9_Witness ==
    \E u \in DOMAIN disk.users :
        /\ NumLookups(disk, u) >= 1
        /\ disk.users[u].credits = DefaultCredits

\* a committed balance of -1
C10_Witness ==
    \E u \in DOMAIN disk.users : disk.users[u].credits = 0 - 1

\* ---- the response cache over several TTLs -----------------------------
\* the clock advances in steps that reach and pass an entry's expiry
CacheTick ==
    /\ now + CacheTickUnit <= CacheMaxTime
    /\ now' = now + CacheTickUnit
    /\ UNCHANGED <<conn, disk, cache, stats, req, httpCalls, admitLog, last>>
    /\ UNCHANGED poolvars

NextCache ==
    \/ \E q \in {"12345", "67890"} :
          ApiCall("r1", "u1", "num", q, "none", "none", MaxCacheCalls)
    \/ \E p \in Payloads : HttpResponse("r1", "json200", p, "none")
    \/ CacheTick

SpecCache == Init /\ [][NextCache]_vars

\* a step in which slot r1 entered process_lookup and was admitted
EnterStep == req["r1"].pc = "idle" /\ admitLog' # admitLog

\* the call of that step: still in flight, or already returned
Entered == IF req'["r1"].pc = "http" THEN req'["r1"] ELSE last'

\* C11: a call is served from the cache only at a time before the entry's
\* expiry, and the hit leaves the expiry as it was; a call that finds the
\* entry at or after its expiry removes it and goes on to an HTTP request;
\* a stored entry expires CacheTTL after the response that stored it.
C11_NoStaleHit ==
    [][LET e == Entered
           ck == generate_cache_key(e.command, e.query)
           done == req["r1"]
           dk == generate_cache_key(done.command, done.query)
       IN  /\ (EnterStep /\ e.pc = "returned" /\ e.api_response.cached)
                 => /\ ck \in DOMAIN cache
                    /\ now < cache[ck].expires
                    /\ ck \in DOMAIN cache'
                    /\ cache'[ck].expires = cache[ck].expires
           /\ (EnterStep /\ ck \in DOMAIN cache /\ now >= cache[ck].expires)
                 => /\ ck \notin DOMAIN cache'
                    /\ e.pc = "http"
                    /\ httpCalls' = httpCalls + 1
           /\ (done.pc = "http" /\ last' # last /\ last'.api_response.success)
                 => /\ dk \in DOMAIN cache'
                    /\ cache'[dk].expires = now + CacheTTL]_vars

\* a query answered from the cache before its entry expired is looked up
\* again exactly at the expiry instant and is at its HTTP request
C11_Witness ==
    /\ req["r1"].pc = "http"
    /\ req["r1"].start_time = CacheTTL
    /\ last.pc = "returned"
    /\ last.api_response.cached
    /\ last.query = req["r1"].query
    /\ last.end_time < CacheTTL
    /\ generate_cache_key("num", last.query) \notin DOMAIN cache

\* C12 (as claimed): a lookup answered from the cache (the same command and
\* query looked up with success less than CacheTTL before) returns a result
\* showing cached = true and a latency of zero, and issues no HTTP request.
C12_SecondLookupShowsCached ==
    (last.pc = "returned" /\ last.api_response.cached)
       => /\ last.attempts = 0
          /\ last.result.cached = TRUE
          /\ last.result.response_time_ms = 0

\* a lookup came from the cache without any request and its result says
\* cached = false
C12_Witness ==
    /\ last.pc = "returned"
    /\ last.api_response.cached
    /\ last.attempts = 0
    /\ last.result.cached = FALSE

\* C13 (as claimed): the data a cache entry holds is the value decoded from
\* the upstream response, whatever lookups have been processed since.
C13_CacheHoldsDecodedValue ==
    \A ck \in DOMAIN cache :
        \E o \in HttpOutcomes, p \in Payloads :
            IsSuccessOutcome(o) /\ cache[ck].data = DecodedData(o, p)

\* an entry's data carries the metadata of the lookup that stored it
C13_Witness ==
    \E ck \in DOMAIN cache :
        /\ "_format" \in DOMAIN cache[ck].data
        /\ "cached" \in DOMAIN cache[ck].data
        /\ cache[ck].data.cached = FALSE
        /\ cache[ck].data.name = "X"

\* ---- attempts, retries and failures of the dispatcher -----------------
NextRetry ==
    \/ \E c \in Commands :
          ApiCall("r1", "u1", c, "12345", "none", "none", MaxRetryCalls)
    \/ \E o \in {"json200", "timeout", "http500", "json_bad"}, p \in Payloads :
          HttpResponse("r1", o, p, "none")
    \/ Wake("r1")
    \/ Tick

SpecRetry == Init /\ [][NextRetry]_vars

\* C14: a dispatch for a service name outside the catalogue returns at once
\* with the configuration error: no HTTP request, no backoff wait, no
\* retry, and the cache is left as it was.
C14_UnknownServiceFailsAtOnce ==
    [][/\ \A r \in ReqIds :
             req[r].pc \in {"http", "sleep"} => req[r].command \in APIS
       /\ (EnterStep /\ Entered.command \notin APIS)
             => /\ Entered.pc = "returned"
                /\ ~Entered.api_response.success
                /\ Entered.api_response.error = "API not configured"
                /\ Entered.attempts = 0
                /\ httpCalls' = httpCalls
                /\ cache' = cache]_vars

\* an admitted lookup of an unknown service has returned its error
C14_Witness ==
    /\ last.pc = "returned"
    /\ last.admitted
    /\ last.command = "nosuch"
    /\ last.result.message = "API not configured"
    /\ httpCalls = 0
    /\ cache = <<>>

\* the lookup returned last went through the HTTP attempts of make_request
LastDispatched ==
    /\ last.pc = "returned"
    /\ last.admitted
    /\ last.command \in APIS
    /\ ~last.api_response.cached

\* C15: a dispatch of a configured service never makes more HTTP attempts
\* than the retry count of the service's descriptor; it makes exactly that
\* many when every attempt fails; and a successful attempt is the last one.
C15_AttemptsWithinRetryCount ==
    /\ \A r \in ReqIds : req[r].attempts <= APIConfig_retry
    /\ \A r \in ReqIds :
          req[r].pc \in {"http", "sleep"} =>
              req[r].attempts = Len(req[r].errors)
                                   + (IF req[r].pc = "http" THEN 1 ELSE 0)
    /\ (LastDispatched /\ ~last.api_response.success)
          => (last.attempts = APIConfig_retry /\ Len(last.errors) = last.attempts)
    /\ (LastDispatched /\ last.api_response.success)
          => (last.attempts = Len(last.errors) + 1)

\* three attempts ended in a timeout or a non-200 status and the dispatch
\* failed
C15_Witness ==
    /\ LastDispatched
    /\ ~last.api_response.success
    /\ last.attempts = 3
    /\ last.errors = <<"Timeout after 10s", "HTTP 500", "Timeout after 10s">>
    /\ httpCalls = 3

\* C16 (as claimed): once an attempt has ended in a decode error the
\* dispatch makes no further attempt.
C16_DecodeErrorNotRetried ==
    \A r \in ReqIds :
        req[r].pc \in {"http", "sleep"} =>
            \A i \in DOMAIN req[r].errors : req[r].errors[i] # "JSON decode error"

\* the second HTTP request of a dispatch whose first attempt ended in a
\* decode error is out
C16_Witness ==
    \E r \in ReqIds :
        /\ req[r].pc = "http"
        /\ req[r].attempts = 2
        /\ req[r].errors = <<"JSON decode error">>

\* C17: when no attempt of a dispatch succeeded, the result is a failure
\* carrying the error of the last attempt made and the time elapsed since
\* the first attempt started.
C17_FailureCarriesLastError ==
    (LastDispatched /\ ~last.api_response.success)
       => /\ Len(last.errors) >= 1
          /\ last.api_response.error = last.errors[Len(last.errors)]
          /\ last.api_response.response_time = last.end_time - last.start_time
          /\ last.result.error = TRUE
          /\ last.result.message = last.errors[Len(last.errors)]

\* a failed dispatch whose last error differs from its first, returned some
\* time after it started
C17_Witness ==
    /\ LastDispatched
    /\ ~last.api_response.success
    /\ last.errors[1] = "Timeout after 10s"
    /\ last.errors[3] = "HTTP 500"
    /\ last.api_response.error = "HTTP 500"
    /\ last.api_response.response_time = TickUnit

\* a step in which make_request of slot r1 ended its attempts and
\* process_lookup returned
TerminalStep == req["r1"].pc = "http" /\ req'["r1"].pc = "idle"

\* a step in which an admitted process_lookup call of slot r1 returned
ReturnStep ==
    \/ TerminalStep
    \/ (EnterStep /\ req'["r1"].pc = "idle")

\* C18 (as claimed): a dispatch that ends (success, or failure after the
\* last attempt) raises the handler's request count and exactly one of its
\* success / failure counts by 1, and the service's api_stats row in the
\* store shows one call more, once the lookup has been recorded.
C18_StatsUpdatedOncePerDispatch ==
    [][TerminalStep =>
          LET c == last'.command
              s == IF last'.api_response.success THEN 1 ELSE 0
              had == c \in DOMAIN conn.api_stats
          IN  /\ stats'.total_requests = stats.total_requests + 1
              /\ stats'.successful_requests = stats.successful_requests + s
              /\ stats'.failed_requests = stats.failed_requests + (1 - s)
              /\ c \in DOMAIN conn'.api_stats
              /\ conn'.api_stats[c].total_calls
                    = (IF had THEN conn.api_stats[c].total_calls ELSE 0) + 1
              /\ conn'.api_stats[c].successful_calls
                    = (IF had THEN conn.api_stats[c].successful_calls ELSE 0) + s
              /\ conn'.api_stats[c].failed_calls
                    = (IF had THEN conn.api_stats[c].failed_calls ELSE 0) + (1 - s)]_vars

\* a dispatch has failed after three attempts, the handler counts one
\* failed request, and the store has no api_stats row at all
C18_Witness ==
    /\ LastDispatched
    /\ ~last.api_response.success
    /\ last.attempts = 3
    /\ stats.total_requests = 1
    /\ stats.failed_requests = 1
    /\ last.recorded = "None"
    /\ conn.api_stats = <<>>

\* the number of lookup rows equal to row in store S
Rows(S, row) == IF row \in DOMAIN S.lookups THEN S.lookups[row] ELSE 0

\* C19: the lookup row written for an admitted request has status
\* 'success' exactly when the dispatch succeeded; for a failed dispatch it
\* has status 'error' and the dispatcher's error text as error_message.
\* It is the only row the request adds, and a row on disk is a row written
\* this way.
C19_RecordStatusMatchesDispatch ==
    [][/\ \A x \in DOMAIN disk.lookups : Rows(disk, x) <= Rows(conn, x)
       /\ ReturnStep =>
             LET a == last'.api_response
                 row == [user_id |-> last'.user_id, command |-> last'.command,
                         query |-> last'.query,
                         status |-> IF a.success THEN "success" ELSE "error",
                         error_message |-> IF a.success THEN "None" ELSE a.error]
             IN  /\ Rows(conn', row) = Rows(conn, row) + 1
                 /\ \A x \in DOMAIN conn'.lookups \ {row} :
                        Rows(conn', x) = Rows(conn, x)
                 /\ ~a.success => /\ a.error # "None"
                                  /\ last'.result.message = row.error_message]_vars

\* the row of a failed dispatch is on disk with its error text, and the row
\* of a later successful one is written
C19_Witness ==
    /\ \E x \in DOMAIN disk.lookups :
          x.status = "error" /\ x.error_message = "HTTP 500"
    /\ \E y \in DOMAIN conn.lookups : y.status = "success"
    /\ last.pc = "returned"
    /\ last.api_response.success

\* ---- every layer failing ----------------------------------------------
NextErr ==
    \/ \E c \in Commands, cf \in CheckFaults \ {"connect"},
          rf \in RecordFaults \ {"connect"} :
          ApiCall("r1", "u1", c, "12345", cf, rf, MaxErrCalls)
    \/ \E o \in HttpOutcomes \ {"html200_json", "html200_text", "other200_json", "other200"},
          p \in Payloads, rf \in {"none", "insert"} :
          HttpResponse("r1", o, p, rf)
    \/ Wake("r1")

SpecErr == Init /\ [][NextErr]_vars

\* C20: whatever fails (the rate-limit store, an HTTP attempt in any way,
\* the persistence write), process_lookup ends by returning a result: the
\* denial, an error dict carrying the message, or the formatted data.  No
\* call ends in an exception.
C20_AlwaysReturnsAResult ==
    /\ last.pc \in {"none", "returned"}
    /\ \A r \in ReqIds : req[r].pc \in {"idle", "http", "sleep"}
    /\ last.pc = "returned" =>
          \/ (~last.admitted /\ last.result = RateLimitExceeded)
          \/ /\ last.admitted
             /\ ~last.api_response.success
             /\ last.result.error = TRUE
             /\ last.result.message = last.api_response.error
          \/ /\ last.admitted
             /\ last.api_response.success
             /\ last.result.success = TRUE

\* a call whose rate-limit check raised on commit, whose three attempts
\* ended in an unexpected exception, a connection error and a decode error,
\* and whose record insert failed, has returned its error dict
C20_Witness ==
    /\ last.pc = "returned"
    /\ last.fault = "commit"
    /\ last.errors = <<"Unexpected error", "Client error", "JSON decode error">>
    /\ last.recorded = "None"
    /\ NumLookups(conn, last.user_id) = 0
    /\ last.result.message = "JSON decode error"

\* ---- the presentation of a result (format_response, format_for_telegram)
\* a string of n letters, standing for a long field of an upstream answer
Filler(n) == [len |-> n]

\* what an upstream service may have answered: a plain dict, one with a long
\* field, one that itself sets keys format_response adds, and the wrapped
\* raw text of a non-JSON body
BlobLens == {0} \cup ((MaxBlob - 3) .. MaxBlob)

FormatPayloads ==
    {[name |-> "X"], [raw_response |-> "text"]}
    \cup {[name |-> "X", blob |-> Filler(n)] : n \in BlobLens}
    \cup {[name |-> "X", success |-> FALSE, query |-> "upstream", cached |-> TRUE],
          [name |-> "X", _format |-> [type |-> "xml"]]}

\* the results make_request can hand to format_response: a cache hit, a
\* fresh success, a failure
FormatInputs ==
    {APIResponse(TRUE, p, "None", 0, TRUE) : p \in FormatPayloads}
    \cup {APIResponse(TRUE, p, "None", 2, FALSE) : p \in FormatPayloads}
    \cup {APIResponse(FALSE, <<>>, "Timeout after 10s", 7, FALSE)}

\* len() of the strings that occur in the results above
StrLen(s) ==
    CASE s \in {"X"} -> 1
      [] s \in {"num", "xml"} -> 3
      [] s \in {"name", "blob", "type", "json", "text"} -> 4
      [] s \in {"12345", "67890", "query", "error"} -> 5
      [] s \in {"nosuch", "cached", "pretty"} -> 6
      [] s \in {"success", "command", "_format", "message"} -> 7
      [] s \in {"upstream"} -> 8
      [] s \in {"timestamp", "developer"} -> 9
      [] s \in {"powered_by", "max_length"} -> 10
      [] s \in {"raw_response"} -> 12
      [] s \in {"truncate_long", "NULL PROTOCOL"} -> 13
      [] s \in {"@Nullprotocol_X"} -> 15
      [] s \in {"response_time_ms"} -> 16
      [] s \in {"Timeout after 10s"} -> 17

RECURSIVE Digits(_)
Digits(n) == IF n < 10 THEN 1 ELSE 1 + Digits(n \div 10)

\* len(json.dumps(d, indent=2, ensure_ascii=False, default=str)) for a dict d
\* printed at indentation ind: "{" newline, one line per item
\* (indentation, quoted key, ": ", value), ",\n" between items, newline,
\* indentation, "}".  A value is printed by its type: true/false, a number
\* by its digits (a float latency with ".0", the integer 0 of a cache hit
\* without), a string in quotes, a dict recursively; the timestamp is the 26
\* characters of datetime.isoformat() in quotes.
RECURSIVE JsonItemsLen(_, _, _)
RECURSIVE JsonLen(_, _)
JsonValueLen(k, v, ind) ==
    CASE k \in {"success", "cached", "pretty", "truncate_long", "error"} ->
             IF v THEN 4 ELSE 5
      [] k = "blob" -> v.len + 2
      [] k = "timestamp" -> 28
      [] k = "response_time_ms" -> IF v = 0 THEN 1 ELSE Digits(v) + 2
      [] k = "max_length" -> Digits(v)
      [] k = "_format" -> JsonLen(v, ind)
      [] OTHER -> StrLen(v) + 2

JsonItemsLen(d, K, ind) ==
    IF K = {} THEN 0
    ELSE LET k == CHOOSE x \in K : TRUE
         IN  ind + StrLen(k) + 2 + 2 + JsonValueLen(k, d[k], ind)
             + JsonItemsLen(d, K \ {k}, ind)

JsonLen(d, ind) ==
    IF DOMAIN d = {} THEN 2
    ELSE 2 + JsonItemsLen(d, DOMAIN d, ind + 2)
         + 2 * (Cardinality(DOMAIN d) - 1) + 1 + ind + 1

\* json.dumps(...): the text, given by the value it prints and its length
json_dumps(data) == [of |-> data, len |-> JsonLen(data, 0)]

\* the names bound at module level in api_handler.py (lines 1-9, 11, 36, 302)
ModuleNames ==
    {"aiohttp", "asyncio", "json", "hashlib", "Dict", "Any", "Optional", "List",
     "datetime", "timedelta", "time", "config", "db", "APIResponse",
     "APIHandler", "api_handler"}

\* data.get(k, default)
Get(d, k, default) == IF k \in DOMAIN d THEN d[k] ELSE default

\* faulty variant: the threshold itself already makes a document
ExceedsMaxLength_ge(json_str, limit) == json_str.len >= limit

\* `len(json_str) > max_length` (line 211)
ExceedsMaxLength(json_str, limit) == json_str.len > limit

\* APIHandler.format_for_telegram for a dict.  The inline branch evaluates
\* html.escape (line 225); a name that is not bound raises NameError, which
\* the `except Exception` of line 242 turns into the error text.
format_for_telegram(data, limit) ==
    LET json_str == json_dumps(data)
    IN  IF ExceedsMaxLength(json_str, limit)
        THEN [type |-> "document",
              caption |-> [command |-> Get(data, "command", "Data"),
                           query |-> Get(data, "query", "N/A"),
                           response_time_ms |-> Get(data, "response_time_ms", 0)],
              parse_mode |-> "HTML",
              data |-> json_str]
        ELSE IF "html" \notin ModuleNames
        THEN [text |-> [error_formatting |-> "name 'html' is not defined"],
              parse_mode |-> "HTML"]
        ELSE [text |-> [code |-> json_str,
                        response_time_ms |-> Get(data, "response_time_ms", 0),
                        cached |-> Get(data, "cached", FALSE)],
              parse_mode |-> "HTML"]

\* a result without its timestamp field
NoTimestamp(d) == [k \in DOMAIN d \ {"timestamp"} |-> d[k]]

\* a presentation without the timestamp its rendering prints
Presentation(tg) ==
    IF "data" \in DOMAIN tg
    THEN [tg EXCEPT !.data = [of |-> NoTimestamp(@.of), len |-> @.len]]
    ELSE tg

\* the rendering lengths next to the threshold
Boundary == {max_length, max_length + 1}

\* format_response then format_for_telegram are applied to a result of
\* make_request, as main.py does with the result of a lookup (lines 416-422)
FormatStep(api_response, c, q) ==
    /\ LET result == format_response(api_response, c, q, now)
           tg == format_for_telegram(result, max_length)
           len == JsonLen(result, 0)
       IN  last' = [pc |-> "formatted", api_response |-> api_response,
                    command |-> c, query |-> q, result |-> result,
                    telegram |-> tg, json_len |-> len,
                    seen |-> (IF "seen" \in DOMAIN last THEN last.seen ELSE {})
                             \cup (IF len \in Boundary
                                   THEN {<<len, "type" \in DOMAIN tg>>} ELSE {}),
                    result2 |-> <<>>, telegram2 |-> <<>>]
    /\ UNCHANGED <<now, conn, disk, cache, stats, req, httpCalls, admitLog>>
    /\ UNCHANGED poolvars

\* the same raw result, command and query are formatted once more.  same:
\* the very dict formatted before (format_response has written its keys into
\* it); otherwise an equal raw result that was not formatted yet.
Reformat(same) ==
    /\ "seen" \in DOMAIN last
    /\ last.pc = "formatted"
    /\ LET ar == IF same /\ last.api_response.success
                 THEN [last.api_response EXCEPT !.data = last.result]
                 ELSE last.api_response
           result2 == format_response(ar, last.command, last.query, now)
       IN  last' = [last EXCEPT !.pc = "reformatted", !.result2 = result2,
                        !.telegram2 = format_for_telegram(result2, max_length)]
    /\ UNCHANGED <<now, conn, disk, cache, stats, req, httpCalls, admitLog>>
    /\ UNCHANGED poolvars

NextFormat ==
    \/ \E ar \in FormatInputs, c \in Commands, q \in Queries : FormatStep(ar, c, q)
    \/ \E same \in BOOLEAN : Reformat(same)
    \/ Tick

SpecFormat == Init /\ [][NextFormat]_vars

\* C21: format_response leaves every key the upstream answer already holds
\* at the upstream value; it only adds the keys that are absent.
C21_UpstreamKeysKept ==
    (last.pc = "formatted" /\ last.api_response.success) =>
        \A k \in DOMAIN last.api_response.data :
            last.result[k] = last.api_response.data[k]

C21_Witness ==
    /\ last.pc = "formatted"
    /\ last.api_response.success
    /\ "_format" \in DOMAIN last.api_response.data
    /\ last.api_response.data._format.type = "xml"
    /\ last.result._format.type = "json"
    /\ last.result.name = "X"

C23_InlineTextHoldsRendering ==
    (last.pc = "formatted" /\ last.json_len <= max_length) =>
        /\ "text" \in DOMAIN last.telegram
        /\ "code" \in DOMAIN last.telegram.text
        /\ last.telegram.text.code.of = last.result

C23_Witness ==
    /\ last.pc = "formatted"
    /\ last.api_response.success
    /\ last.json_len <= max_length
    /\ "text" \in DOMAIN last.telegram
    /\ "error_formatting" \in DOMAIN last.telegram.text

\* C24: formatting the same raw result, command and query a second time
\* gives the same result and the same presentation, the timestamp field
\* apart.
C24_FormattingIdempotent ==
    last.pc = "reformatted" =>
        /\ NoTimestamp(last.result2) = NoTimestamp(last.result)
        /\ Presentation(last.telegram2) = Presentation(last.telegram)

C24_Witness ==
    /\ last.pc = "reformatted"
    /\ last.api_response.success
    /\ last.result2.timestamp > last.result.timestamp
    /\ "type" \in DOMAIN last.telegram2
    /\ last.telegram2.data.len = max_length + 1

\* C25: a lookup whose dispatch or persistence write failed leaves nothing
\* that another lookup makes visible: the commit of a later lookup's
\* admission adds no lookup row of the lookup that returned unrecorded.
C25_FailedWriteStaysInvisible ==
    [][(admitLog' # admitLog /\ last.pc = "returned" /\ last.recorded = "None")
          => NumLookups(disk', last.user_id) = NumLookups(disk, last.user_id)]_vars

\* the row of a lookup whose write failed is on disk, committed by the
\* admission of the lookup now in flight (no /start has been handled)
C25_Witness ==
    /\ req["r1"].pc = "http"
    /\ req["r1"].admitted
    /\ last.pc = "returned"
    /\ last.recorded = "None"
    /\ ~last.api_response.success
    /\ DOMAIN disk.users = {}
    /\ NumLookups(disk, last.user_id) = 1

\* ---- cancellation of a lookup in flight -------------------------------
NextCancel ==
    \/ ApiCall("r1", "u1", "num", "12345", "none", "none", MaxCancelCalls)
    \/ \E o \in {"json200", "timeout"}, p \in Payloads : HttpResponse("r1", o, p, "none")
    \/ Wake("r1")
    \/ Cancel("r1")
    \/ Tick

SpecCancel == Init /\ [][NextCancel]_vars

\* the step delivers a cancellation to the dispatch of slot r
CancelDelivered(r) ==
    /\ req[r].pc \in {"http", "sleep"}
    /\ \/ last' # last /\ last'.cancelled
       \/ req'[r].cancelled /\ ~req[r].cancelled

\* C26: a cancellation that arrives during an HTTP attempt or a backoff
\* sleep ends the dispatch in that step: the sleep is interrupted and the
\* dispatch issues no HTTP attempt afterwards.
C26_CancelStopsDispatch ==
    [][\A r \in ReqIds :
          /\ CancelDelivered(r) =>
                /\ last'.pc = "cancelled"
                /\ req'[r].pc = "idle"
                /\ httpCalls' = httpCalls
          /\ req[r].cancelled => req'[r].attempts <= req[r].attempts]_vars

C26_Witness ==
    /\ last.pc = "cancelled"
    /\ last.outcome = "sleep"
    /\ last.attempts = 2
    /\ last.sleeps = <<1, 2>>
    /\ httpCalls = 2
    /\ req["r1"].pc = "idle"

\* C27 (as claimed): the wait before the attempt of zero-based index i is
\* 2^i seconds.
C27_BackoffByNextAttempt ==
    \A rq \in {req[r] : r \in ReqIds} \cup {last} :
        \A i \in DOMAIN rq.sleeps : rq.sleeps[i] = 2 ^ i

\* C27: after the failed attempt of zero-based index a that is not the last
\* one, make_request waits 2^a seconds (1 s before the second attempt, 2 s
\* before the third); it waits neither before the first attempt nor after
\* the last.
C27_BackoffByFailedAttempt ==
    \A rq \in {req[r] : r \in ReqIds} \cup {last} :
        /\ Len(rq.sleeps) = IF rq.attempts = 0 THEN 0
                            ELSE IF rq.pc = "sleep" THEN rq.attempts
                            ELSE rq.attempts - 1
        /\ Len(rq.sleeps) < Retries
        /\ \A i \in DOMAIN rq.sleeps : rq.sleeps[i] = 2 ^ (i - 1)

C27_Witness ==
    /\ last.pc = "returned"
    /\ ~last.api_response.success
    /\ last.attempts = Retries
    /\ last.sleeps = <<1, 2>>

\* ---- the decoding of 200 answers --------------------------------------
NextDecode ==
    \/ \E q \in {"12345", "67890"} :
          ApiCall("r1", "u1", "num", q, "none", "none", MaxDecodeCalls)
    \/ \E o \in {"json200", "html200_json", "html200_text", "other200_json", "other200"},
          p \in Payloads : HttpResponse("r1", o, p, "none")
    \/ Tick

SpecDecode == Init /\ [][NextDecode]_vars

\* C28: a 200 answer whose content type is not JSON is parsed as JSON
\* whatever the content type; only a body that is not JSON is wrapped as
\* {raw_response: text}.
C28_NonJsonTypeParsedWhenJson ==
    (last.pc = "returned" /\ last.attempts > 0) =>
        /\ last.answer \in {"html200_json", "other200_json"} =>
              last.api_response.data \in Payloads
        /\ last.answer \in {"html200_text", "other200"} =>
              DOMAIN last.api_response.data = {"raw_response"}

C28_Witness ==
    /\ last.pc = "returned"
    /\ last.answer = "other200_json"
    /\ last.api_response.success
    /\ DOMAIN last.api_response.data = {"raw_response"}
    /\ last.api_response.data.raw_response = JsonText([name |-> "X"])

\* C29: only a successful attempt writes the cache: a dispatch that fails
\* (no attempt succeeded, or the service is unknown) leaves the cache as it
\* was, and the same query after a failure goes to the network again.
C29_CacheWrittenOnlyBySuccess ==
    [][/\ cache' # cache =>
             /\ last' # last
             /\ last'.pc = "returned"
             /\ last'.api_response.success
             /\ last'.answer \in {"json200", "html200_json", "html200_text",
                                  "other200_json", "other200"}
       /\ (last' # last /\ last'.pc = "returned" /\ ~last'.api_response.success)
             => cache' = cache
       /\ ( /\ EnterStep
            /\ last.pc = "returned"
            /\ ~last.api_response.success
            /\ IsConfigured(last.command)
            /\ Entered.command = last.command
            /\ Entered.query = last.query )
             => (httpCalls' = httpCalls + 1 /\ req'["r1"].pc = "http")]_vars

C29_Witness ==
    /\ last.pc = "returned"
    /\ ~last.api_response.success
    /\ last.attempts = Retries
    /\ req["r1"].pc = "http"
    /\ req["r1"].command = last.command
    /\ req["r1"].query = last.query
    /\ cache = <<>>
    /\ httpCalls = Retries + 1

\* C30: the count of every rate-limit row is between 1 and the limit.
C30_CountWithinLimit ==
    \A k \in DOMAIN conn.rate_limits :
        /\ conn.rate_limits[k].count >= 1
        /\ conn.rate_limits[k].count <= Limit

C30_Witness ==
    \E k \in DOMAIN disk.rate_limits :
        /\ disk.rate_limits[k].count = Limit + 1
        /\ Len(admitLog[k]) = Limit + 1
        /\ InWindowAdmits(disk, k, admitLog) = Limit

\* ---- several rate-limit keys ------------------------------------------
NextKeys ==
    \/ \E u \in Users, c \in Commands :
          ApiCall("r1", u, c, "12345", "none", "none", MaxKeyCalls)
    \/ \E p \in Payloads : HttpResponse("r1", "json200", p, "none")

SpecKeys == Init /\ [][NextKeys]_vars

\* the rate_limits row of key k, "-" when there is none
RateLimitRow(S, k) ==
    IF k \in DOMAIN S.rate_limits
    THEN <<S.rate_limits[k].count, S.rate_limits[k].window_start>>
    ELSE <<0, 0 - 1>>

\* C31: a check for one key leaves the row of every other key as it was, so
\* calls on other keys never change whether a key is admitted.
C31_OtherKeysUntouched ==
    [][\A k \in Keys :
          admitLog'[k] = admitLog[k] =>
              /\ RateLimitRow(conn', k) = RateLimitRow(conn, k)
              /\ RateLimitRow(disk', k) = RateLimitRow(disk, k)]_vars

C31_Witness ==
    /\ CountOf(disk, <<"u1", "num">>) = Limit
    /\ CountOf(disk, <<"u1", "nosuch">>) = 1
    /\ ~(<<"owner", "num">> \in DOMAIN disk.rate_limits)
    /\ last.pc = "returned"
    /\ last.user_id = "u1"
    /\ last.command = "nosuch"
    /\ last.admitted

\* ---- the chat layer's gates before dispatch ---------------------------
NextGate ==
    \/ \E chat_type \in {"group", "supergroup", "private"}, args \in {<<>>, <<"12345">>} :
          ChatCommand("r1", "u1", "num", chat_type, args, "none", MaxGateCalls)
    \/ \E st \in [1 .. 2 -> MemberStatuses] : MembershipChecked("r1", st)
    \/ Notified("r1", "none", "none")
    \/ \E p \in Payloads : HttpResponse("r1", "json200", p, "none")
    \/ ChatReply("r1")
    \/ ChatReturn("r1")
    \/ StartCommand("u1", "none")

SpecGate == Init /\ [][NextGate]_vars

\* the chat layer has turned the command of this slot down
Rejected(rq) ==
    /\ rq.via = "chat"
    /\ \/ rq.outcome \in {"not_group", "usage", "not_joined"}
       \/ \E i \in DOMAIN rq.membership : rq.membership[i] \in {"left", "kicked"}

\* C32: a command the chat layer turns down (not a group chat, no query, or
\* a required channel reports the user as left or kicked) never gets to
\* api_handler.process_lookup: no HTTP request, no lookup record, no debit.
C32_RejectedNeverDispatched ==
    [][\A r \in ReqIds :
          Rejected(req'[r]) =>
              /\ req'[r].pc = "replied"
              /\ req'[r].attempts = 0
              /\ req'[r].recorded = "-"
              /\ ~req'[r].admitted
              /\ ~Rejected(req[r]) =>
                    /\ httpCalls' = httpCalls
                    /\ conn'.lookups = conn.lookups
                    /\ conn'.users = conn.users
                    /\ last' = last]_vars

C32_Witness ==
    /\ req["r1"].pc = "replied"
    /\ req["r1"].outcome = "not_joined"
    /\ req["r1"].membership = <<"error", "kicked">>
    /\ "u1" \in DOMAIN conn.users
    /\ conn.users["u1"].credits = DefaultCredits - 1
    /\ NumLookups(conn, "u1") = 1
    /\ httpCalls = 1

\* SELECT COUNT(*) FROM lookups WHERE user_id = ? AND status = 'success'
NumSuccessful(S, user_id) ==
    RowCount(S.lookups, {x \in DOMAIN S.lookups :
                            x.user_id = user_id /\ x.status = "success"})

\* C33: for every user row, total_lookups = successful_lookups +
\* failed_lookups, total_lookups is the number of lookup records the user
\* owns and successful_lookups the number of those with status 'success'.
C33_CountersMatchRecords ==
    \A u \in DOMAIN conn.users :
        /\ conn.users[u].total_lookups
              = conn.users[u].successful_lookups + conn.users[u].failed_lookups
        /\ conn.users[u].total_lookups = NumLookups(conn, u)
        /\ conn.users[u].successful_lookups = NumSuccessful(conn, u)

\* a user row with empty counters beside two records of that user, one of
\* them a success
C33_Witness ==
    /\ "u1" \in DOMAIN conn.users
    /\ conn.users["u1"].total_lookups = 0
    /\ conn.users["u1"].successful_lookups = 0
    /\ NumLookups(conn, "u1") = 2
    /\ NumSuccessful(conn, "u1") = 1

\* C34: every lookup record belongs to a user who has a row.
C34_RecordsOwnedByUsers ==
    \A x \in DOMAIN conn.lookups :
        conn.lookups[x] > 0 => x.user_id \in DOMAIN conn.users

\* a lookup has been dispatched and recorded for a user without a row
C34_Witness ==
    /\ last.pc = "returned"
    /\ last.admitted
    /\ last.api_response.success
    /\ last.user_id \notin DOMAIN conn.users
    /\ NumLookups(conn, last.user_id) = 1
    /\ httpCalls = 1

\* C35: record_lookup is all-or-nothing: lookup rows and user debits become
\* durable only in the step in which record_lookup returns a uuid, and then
\* everything it wrote is committed.
C35_RecordLookupAllOrNothing ==
    [][/\ \A u \in Users :
             \/ NumLookups(disk', u) = NumLookups(disk, u)
             \/ (last' # last /\ last'.recorded = "uuid")
       /\ (last' # last /\ last'.recorded = "uuid") => disk' = conn']_vars

\* the record and the debit of a lookup whose record_lookup returned None
\* are on disk, its api_stats row is not
C35_Witness ==
    /\ last.pc = "returned"
    /\ last.recorded = "None"
    /\ last.user_id \in DOMAIN disk.users
    /\ disk.users[last.user_id].credits = DefaultCredits - 1
    /\ NumLookups(disk, last.user_id) = 1
    /\ disk.api_stats = <<>>

\* ---- the admin panel's queries on the pooled connection ---------------
\* AdminPanel.broadcast (lines 85-90) and AdminPanel.show_users (lines
\* 257-278) run in the event loop: conn = db.get_connection(), a SELECT on
\* users, conn.close().  The entry stays in connection_pool; what the
\* connection had written and not committed is dropped by the close.  On a
\* connection that is closed already conn.cursor() raises and the handler
\* ends there.
AdminQuery ==
    /\ ~ClosedInPool(connection_pool, MainThread)
    /\ LET pool == get_connection(connection_pool, MainThread)
       IN  connection_pool' =
               [i \in DOMAIN pool |->
                   IF pool[i].thread = MainThread
                   THEN [pool[i] EXCEPT !.open = FALSE] ELSE pool[i]]
    /\ conn' = disk
    /\ UNCHANGED <<now, disk, cache, stats, req, httpCalls, admitLog, last, threads>>

\* lookups of a user whose window is full, between admin queries
NextPool ==
    \/ ApiCall("r1", "u1", "num", "12345", "none", "none", MaxPoolCalls)
    \/ \E p \in Payloads : HttpResponse("r1", "json200", p, "none")
    \/ AdminQuery
    \/ Tick

SpecPool == InitFault /\ [][NextPool]_vars

\* C36: every connection held in connection_pool is open, whatever admin
\* operations have run, so that the store calls of later lookups work on
\* an open connection.
C36_PooledConnectionsOpen ==
    \A i \in DOMAIN connection_pool : connection_pool[i].open

\* after an admin query the pool holds the closed connection, and a lookup
\* made when the window already held Limit admissions was admitted (the
\* rate-limit check raised) and returned without a record
C36_Witness ==
    /\ ClosedInPool(connection_pool, MainThread)
    /\ last.pc = "returned"
    /\ last.fault = "connect"
    /\ last.admitted
    /\ last.winAdmits >= Limit
    /\ last.result # RateLimitExceeded
    /\ last.recorded = "None"
    /\ conn = WindowFullStore

\* ---- the dispatcher when every attempt and every sleep ends -----------
\* the HTTP attempt in flight ends in some outcome: session.get runs under
\* ClientTimeout(total=timeout) (api_handler.py lines 44-48, 100-103)
AttemptAnswered ==
    \E o \in {"json200", "timeout", "http500"}, p \in Payloads :
        HttpResponse("r1", o, p, "none")

NextTerminates ==
    \/ \E c \in Commands, q \in {"12345", "67890"} :
          ApiCall("r1", "u1", c, q, "none", "none", MaxTermCalls)
    \/ AttemptAnswered
    \/ Wake("r1")

\* the attempt in flight runs into the total timeout of its session.get
\* (ClientTimeout(total=timeout), caught at lines 132-133)
AttemptTimesOut ==
    \E p \in Payloads : HttpResponse("r1", "timeout", p, "none")

\* the event loop resumes a suspended make_request: an attempt that has
\* not ended otherwise ends by its timeout, a backoff sleep that was
\* started returns
SpecTerminates ==
    /\ Init
    /\ [][NextTerminates]_vars
    /\ WF_vars(AttemptTimesOut)
    /\ WF_vars(Wake("r1"))

\* a dispatch is suspended in make_request: at its HTTP attempt or at the
\* backoff sleep
InMakeRequest(r) == req[r].pc \in {"http", "sleep"}

\* C37: make_request terminates.  While a dispatch is in make_request it
\* has made at most Retries attempts and fewer than Retries backoff waits,
\* and every dispatch that is in make_request goes on to return its result
\* to process_lookup, which returns.
C37_MakeRequestTerminates ==
    /\ [](\A r \in ReqIds :
            InMakeRequest(r) =>
               /\ req[r].attempts <= Retries
               /\ Len(req[r].sleeps) < Retries)
    /\ (InMakeRequest("r1") ~> (req["r1"].pc = "idle" /\ last.pc = "returned"))

\* a dispatch that used every attempt and every backoff wait has returned
\* its failure, and the slot is free again
C37_Witness ==
    /\ req["r1"].pc = "idle"
    /\ LastDispatched
    /\ last.attempts = Retries
    /\ Len(last.sleeps) = Retries - 1
    /\ last.api_response.error = "HTTP 500"

\* ---- /start from a user who has a row ---------------------------------
\* C38: add_user for a user_id that already has a row returns False and
\* leaves that row as it was (credits, counters, referral code, ban flag),
\* in the connection's view and in the committed store afterwards; and no
\* step raises a user's credits, so a repeated /start restores nothing.
C38_AddUserKeepsExistingRow ==
    [][/\ \A u \in DOMAIN conn.users :
             StartCommand(u, "none") =>
                /\ ~add_user(conn, disk, u, now, "none").ret
                /\ conn'.users[u] = conn.users[u]
                /\ disk'.users[u] = conn.users[u]
       /\ \A u \in DOMAIN conn.users :
             /\ u \in DOMAIN conn'.users
             /\ conn'.users[u].credits <= conn.users[u].credits]_vars

\* u1 was registered at time 0, had one lookup recorded and debited, and
\* sent /start again later: the commit of that add_user stored the debit,
\* and the row still carries the first referral code
C38_Witness ==
    /\ now > 0
    /\ "u1" \in DOMAIN disk.users
    /\ disk.users["u1"].credits = DefaultCredits - 1
    /\ disk.users["u1"].referral_code = ReferralCode("u1", 0)
    /\ ~disk.users["u1"].is_banned
    /\ NumLookups(disk, "u1") = 1
    /\ CountOf(disk, <<"u1", "num">>) + CountOf(disk, <<"u1", "nosuch">>) = 1
    /\ conn = disk

\* ---- get_connection called by the dashboard's request threads ---------
\* stats_api (main.py lines 743-759) runs in a request thread of the
\* dashboard's server and calls db.get_admin_stats, which calls
\* get_connection.  get_connection takes no lock (DatabaseManager._lock is
\* never acquired), so between its test of the pool's size, its eviction
\* and its insertion other threads run.

\* request thread t enters get_connection: it has no entry, and it reads
\* the size of the pool (lines 34-37).  Threads are started in the order
\* of their numbers.
DashEnter(t) ==
    /\ threads[t] = "none"
    /\ \A x \in DashThreads : x < t => threads[x] # "none"
    /\ threads' = [threads EXCEPT ![t] =
           IF Len(connection_pool) >= max_pool_size THEN "evict" ELSE "connect"]
    /\ UNCHANGED <<now, conn, disk, cache, stats, req, httpCalls, admitLog, last,
                   connection_pool>>

\* t, having found the pool full, closes and drops the connection that is
\* the oldest now (lines 38-41).  Closing the event loop's connection
\* discards what it has written and not committed.
DashEvict(t) ==
    /\ threads[t] = "evict"
    /\ connection_pool # <<>>
    /\ connection_pool' = Tail(connection_pool)
    /\ conn' = IF Head(connection_pool) = [thread |-> MainThread, open |-> TRUE]
               THEN disk ELSE conn
    /\ threads' = [threads EXCEPT ![t] = "connect"]
    /\ UNCHANGED <<now, disk, cache, stats, req, httpCalls, admitLog, last>>

\* t opens its connection and stores it in the pool (lines 43-47); the
\* request is then answered from it
DashConnect(t) ==
    /\ threads[t] = "connect"
    /\ connection_pool' = Append(connection_pool, [thread |-> t, open |-> TRUE])
    /\ threads' = [threads EXCEPT ![t] = "done"]
    /\ UNCHANGED <<now, conn, disk, cache, stats, req, httpCalls, admitLog, last>>

NextThreads ==
    \/ ApiCall("r1", "u1", "num", "12345", "none", "none", MaxThreadCalls)
    \/ \E p \in Payloads : HttpResponse("r1", "json200", p, "none")
    \/ \E t \in DashThreads : DashEnter(t)
    \/ \E t \in DashThreads : DashEvict(t)
    \/ \E t \in DashThreads : DashConnect(t)

SpecThreads == Init /\ [][NextThreads]_vars

\* the event loop's connection holds writes it has not committed
UncommittedWrites == conn # disk

\* C39: under any interleaving of the threads calling get_connection the
\* pool never holds more than max_pool_size connections, and no step of a
\* thread closes the event loop's connection while that connection holds
\* uncommitted writes.
C39_PoolBoundedAndExclusive ==
    [][/\ Len(connection_pool') <= max_pool_size
       /\ (InPool(connection_pool, MainThread)
             /\ ~InPool(connection_pool', MainThread))
          => ~UncommittedWrites]_vars

\* the pool holds more than max_pool_size connections, the event loop's
\* connection was closed and dropped by a request thread, and the record
\* of the lookup that had returned is gone with it
C39_Witness ==
    /\ Len(connection_pool) > max_pool_size
    /\ ~InPool(connection_pool, MainThread)
    /\ last.pc = "returned"
    /\ last.recorded = "None"
    /\ req["r1"].pc = "idle"
    /\ admitLog[<<"u1", "num">>] # <<>>
    /\ NumLookups(conn, "u1") = 0
    /\ conn = disk

====
